---- MODULE Spec2Model ----
(***************************************************************************)
(* Model of the slice-extraction engine of cpp_schema                      *)
(* (src/unnamed/part_000): breadth-first discovery of the foreign-key      *)
(* graph from the root table, partition into direct descendants and        *)
(* outside tables, Kahn's topological sort, and the two data-search        *)
(* passes.                                                                 *)
(*                                                                         *)
(* The source database is the environment.  Its catalog of foreign keys is *)
(* revealed row by row by the two introspection queries; a row that was    *)
(* revealed once is returned again by every later query that selects it,   *)
(* so the program sees one fixed database.  Tables are numbered in the     *)
(* order the program first sees them (the root is table 1): the program    *)
(* never looks inside a table name, and every iteration over a hash        *)
(* container is modelled as an arbitrary order.                            *)
(***************************************************************************)
EXTENDS Integers, Sequences, FiniteSets, TLC

\* Bounds of the model.  A run draws its database from one of four families:
\* "wide" (more tables, every foreign key is the first free key column of the
\* child and references the parent's id), "deep" (fewer tables, foreign
\* keys between arbitrary columns, arbitrary table contents), "tall" (as
\* deep, with fewer tables still and more rows in each) and "broad" (two
\* tables of many columns, the key columns a and b being the last two).
WideTables == 5
WideEdges == 5
DeepTables == 3
DeepEdges == 2
TallTables == 2
TallEdges == 2
TallRows == 2
BroadTables == 2
BroadEdges == 2
BroadColumns == 129

Tables == 1 .. (IF WideTables > DeepTables THEN WideTables ELSE DeepTables)
\* argv[1], the root table.
root == 1
\* Column names of the catalog.
Cols == {"id", "a", "b"}
\* The empty string: what operator[] of a map of strings yields for a new key.
NoCol == ""

VARIABLES
    family,                \* the family of databases this run draws from
    pc,                    \* position of main
    catalog,               \* FK constraints of the source database revealed so far
    processed,             \* tables whose three introspection queries have completed
    returned,              \* rows the query in progress has delivered so far
    currentTable,
    q,
    seen,
    directDescendants,
    outsideTables,
    deps,
    inv,
    fkeys,
    invFkeys,
    fkeyCols,
    tableFkeyNeeds,
    outsideTableFkeyNeeds,
    tableDependencyFKeys,
    S,
    L,
    invCopyS,
    depsCopyS,
    O,
    othersL,
    rootId,                \* argv[2]
    db,                    \* contents of the source tables read so far
    tableColValues,        \* tableColValues[argv[1]]["id"]
    descendantSet,
    pos,                   \* index of the table a pass processes next
    rawFile,               \* <table>.csv, the lines as sequences of cells
    parsedFile,            \* <table>_parsed.csv, likewise
    totalRows,
    colIndexes,            \* colIndexes of the iteration of doTableDataSearch
    copyResult,            \* exit status of the last external copy command
    copyReported,          \* whether that command was reported as a success
    loaded,                \* tables whose load command has been issued, in order
    dataSearchOrder,       \* main.cpp: the order of the data search
    ran,                   \* main.cpp: the tables runTable was invoked on, in order
    abortedAt              \* the assertion that failed, if one did

\* The variables of the discovery loop, and those of the two sorts.
discoveryVars == << catalog, processed, returned, currentTable, q, seen,
                    directDescendants, outsideTables, deps, inv, fkeys,
                    invFkeys, fkeyCols, tableFkeyNeeds, outsideTableFkeyNeeds,
                    tableDependencyFKeys >>
sortVars == << S, L, invCopyS, depsCopyS, O, othersL >>
dataVars == << rootId, db, tableColValues, descendantSet, pos, rawFile,
               parsedFile, totalRows, colIndexes, copyResult, copyReported,
               loaded >>

\* The variables only main.cpp has.
mainVars == << dataSearchOrder, ran >>

vars == << family, pc, catalog, processed, returned, currentTable, q, seen,
           directDescendants, outsideTables, deps, inv, fkeys, invFkeys,
           fkeyCols, tableFkeyNeeds, outsideTableFkeyNeeds,
           tableDependencyFKeys, S, L, invCopyS, depsCopyS, O, othersL,
           rootId, db, tableColValues, descendantSet, pos, rawFile, parsedFile,
           totalRows, colIndexes, copyResult, copyReported, loaded,
           dataSearchOrder, ran, abortedAt >>

MaxTables ==
    IF family = "wide" THEN WideTables
    ELSE IF family = "tall" THEN TallTables
    ELSE IF family = "broad" THEN BroadTables ELSE DeepTables
MaxEdges ==
    IF family = "wide" THEN WideEdges
    ELSE IF family = "tall" THEN TallEdges
    ELSE IF family = "broad" THEN BroadEdges ELSE DeepEdges

\* One row of either introspection query, with the query's column names.
FKRow(child, col, parent, fcol) ==
    [tableName |-> child, column_name |-> col,
     foreign_table_name |-> parent, foreign_column_name |-> fcol]

\* A file that does not exist, a file with the given lines, and a table that
\* has not been read.
NoFile == [exists |-> FALSE, lines |-> << >>]
\* A variant of the file constructors that leaves no file behind.
Unwritten(lines) == [exists |-> FALSE, lines |-> << >>]
File(lines) == [exists |-> TRUE, lines |-> lines]
Unread == [read |-> FALSE, rows |-> {}]

\* The text of the assertions that can end the run.
PartitionAssertion == "outsideTables.size() + directDescendants.size() == seen.size()"
FileOpenAssertion == "infile.is_open()"
ColumnFoundAssertion == "fkeyColIndex != INT_MIN"

\* std::unordered_map<std::string, int8_t> colIndexes; with no entry.
NoIndexes == [col \in {} |-> 0]
NoTables == [t \in Tables |-> {}]
NoColMap == [t \in Tables |-> [u \in Tables |-> NoCol]]

\* The state after the declarations of main up to the first loop.
Start ==
    /\ pc = "bfs"
    /\ catalog = {}
    /\ processed = {}
    /\ returned = {}
    /\ currentTable = root
    /\ q = << root >>
    /\ seen = {root}
    /\ directDescendants = {root}
    /\ outsideTables = {}
    /\ deps = NoTables
    /\ inv = NoTables
    /\ fkeys = NoColMap
    /\ invFkeys = NoColMap
    /\ fkeyCols = [t \in Tables |-> [c \in Cols \cup {NoCol} |-> NoCol]]
    /\ tableFkeyNeeds = NoTables
    /\ outsideTableFkeyNeeds = NoTables
    /\ tableDependencyFKeys = NoColMap
    /\ S = << >>
    /\ L = << >>
    /\ invCopyS = NoTables
    /\ depsCopyS = NoTables
    /\ O = << >>
    /\ othersL = << >>
    /\ rootId = ""
    /\ db = [t \in Tables |-> Unread]
    /\ tableColValues = << >>
    /\ descendantSet = << >>
    /\ pos = 1
    /\ rawFile = [t \in Tables |-> NoFile]
    /\ parsedFile = [t \in Tables |-> NoFile]
    /\ totalRows = 0
    /\ colIndexes = NoIndexes
    /\ copyResult = 0
    /\ copyReported = FALSE
    /\ loaded = << >>
    /\ dataSearchOrder = << >>
    /\ ran = << >>
    /\ abortedAt = ""

Init == family = "deep" /\ Start

InitWide == family = "wide" /\ Start

InitTall == family = "tall" /\ Start

InitBroad == family = "broad" /\ Start

\* The columns of a table, in the order SELECT * returns them.
Columns ==
    IF family = "wide" THEN << "id", "a", "b" >>
    ELSE IF family = "broad"
    THEN [i \in 1 .. BroadColumns |->
            IF i = 1 THEN "id"
            ELSE IF i = BroadColumns - 1 THEN "a"
            ELSE IF i = BroadColumns THEN "b"
            ELSE "c" \o ToString(i)]
    ELSE << "id", "a" >>
ColumnSet == {Columns[i] : i \in 1 .. Len(Columns)}

\* The next table name the catalog can mention for the first time.
FreshTables == IF Cardinality(seen) < MaxTables THEN {Cardinality(seen) + 1} ELSE {}

\* A column carries at most one foreign key.
ColumnFree(child, col) ==
    \A r \in catalog : ~(r.tableName = child /\ r.column_name = col)

\* The key columns a new foreign key from child to parent may join.
KeyColumns(child) ==
    IF family = "wide"
    THEN IF ColumnFree(child, "a") THEN {<< "a", "id" >>}
         ELSE IF ColumnFree(child, "b") THEN {<< "b", "id" >>}
         ELSE {}
    ELSE {k \in (ColumnSet \cap Cols) \X (ColumnSet \cap Cols) :
            ColumnFree(child, k[1])}

\* The rows a query may deliver that the catalog has not revealed yet.
NewRows(children, parents) ==
    IF Cardinality(catalog) < MaxEdges
    THEN UNION {{FKRow(c, k[1], p, k[2]) : k \in KeyColumns(c)} :
                  c \in children, p \in parents}
    ELSE {}

\* A variant of the mark test that lets every table pass.
AnyTable(table) == TRUE
\* directDescendants.count(table) > 0 && directDescendants[table]
IsDirectDescendant(table) == table \in directDescendants

\* A variant that assigns the column instead of inserting it.
NeedsOnly(table, column) == [tableFkeyNeeds EXCEPT ![table] = {column}]
\* tableFkeyNeeds[table].insert(column)
Needs(table, column) == [tableFkeyNeeds EXCEPT ![table] = @ \cup {column}]

\* A variant of the insertion with the two tables exchanged.
SupportedBy(parent, child) == [inv EXCEPT ![child] = @ \cup {parent}]
\* inv[parent].insert(child): parent supports child.
Supports(parent, child) == [inv EXCEPT ![parent] = @ \cup {child}]

\* A variant of the push that does not look at seen.
EnqueuedAlways(table) == Append(q, table)
\* if(seen.count(table) == 0) { q.push(table); }
Enqueued(table) == IF table \notin seen THEN Append(q, table) ELSE q

\* while(!q.empty()) { currentTable = q.front(); q.pop(); ...
Dequeue ==
    /\ pc = "bfs"
    /\ q # << >>
    /\ currentTable' = Head(q)
    /\ q' = Tail(q)
    /\ returned' = {}
    /\ pc' = "children"
    /\ UNCHANGED << catalog, processed, seen, directDescendants, outsideTables,
                    deps, inv, fkeys, invFkeys, fkeyCols, tableFkeyNeeds,
                    outsideTableFkeyNeeds, tableDependencyFKeys, family, mainVars,
                    sortVars, dataVars, abortedAt >>

\* The rows the children query of currentTable may still deliver.
ChildRows ==
    LET known == {r \in catalog : r.foreign_table_name = currentTable} \ returned
    IN  known \cup NewRows((seen \cup FreshTables) \ processed, {currentTable})

\* The handler of the children query (dependants of currentTable), one row.
ChildRow ==
    /\ pc = "children"
    /\ \E r \in ChildRows :
        LET dependentTable == r.tableName
            colName == r.column_name
            foreignColName == r.foreign_column_name
        IN  /\ catalog' = catalog \cup {r}
            /\ returned' = returned \cup {r}
            /\ fkeyCols' = [fkeyCols EXCEPT ![currentTable][colName] = foreignColName]
            /\ tableFkeyNeeds' = Needs(currentTable, foreignColName)
            /\ fkeys' = [fkeys EXCEPT ![dependentTable][currentTable] = colName]
            /\ invFkeys' = [invFkeys EXCEPT ![currentTable][dependentTable] = colName]
            /\ tableDependencyFKeys' =
                 [tableDependencyFKeys EXCEPT ![dependentTable][currentTable] = colName]
            /\ q' = Enqueued(dependentTable)
            /\ seen' = seen \cup {dependentTable}
            /\ IF IsDirectDescendant(currentTable)
               THEN /\ directDescendants' = directDescendants \cup {dependentTable}
                    /\ UNCHANGED outsideTables
               ELSE IF dependentTable \notin directDescendants
               THEN /\ outsideTables' = outsideTables \cup {dependentTable}
                    /\ UNCHANGED directDescendants
               ELSE UNCHANGED << directDescendants, outsideTables >>
            /\ deps' = [deps EXCEPT ![dependentTable] = @ \cup {currentTable}]
            /\ inv' = Supports(currentTable, dependentTable)
    /\ UNCHANGED << pc, processed, currentTable, outsideTableFkeyNeeds, family, mainVars,
                    sortVars, dataVars, abortedAt >>

\* The children query has delivered every row the catalog holds for it.
EndChildren ==
    /\ pc = "children"
    /\ {r \in catalog : r.foreign_table_name = currentTable} \subseteq returned
    /\ returned' = {}
    /\ pc' = "parents"
    /\ UNCHANGED << catalog, processed, currentTable, q, seen, directDescendants,
                    outsideTables, deps, inv, fkeys, invFkeys, fkeyCols,
                    tableFkeyNeeds, outsideTableFkeyNeeds, tableDependencyFKeys,
                    family, mainVars, sortVars, dataVars, abortedAt >>

\* The rows the supporters query of currentTable may still deliver.
ParentRows ==
    LET known == {r \in catalog : r.tableName = currentTable} \ returned
    IN  known \cup NewRows({currentTable},
                           ((seen \cup FreshTables) \ processed) \ {currentTable})

\* The handler of the supporters query (tables currentTable references), one row.
ParentRow ==
    /\ pc = "parents"
    /\ \E r \in ParentRows :
        LET foreignTableName == r.foreign_table_name
            foreignKeyCol == r.foreign_column_name
            tableName == r.tableName
            colName == r.column_name
        IN  /\ catalog' = catalog \cup {r}
            /\ returned' = returned \cup {r}
            /\ q' = Enqueued(foreignTableName)
            /\ outsideTables' = IF foreignTableName \notin directDescendants
                                THEN outsideTables \cup {foreignTableName}
                                ELSE outsideTables
            /\ seen' = seen \cup {foreignTableName}
            /\ deps' = [deps EXCEPT ![currentTable] = @ \cup {foreignTableName}]
            /\ inv' = Supports(foreignTableName, currentTable)
            /\ outsideTableFkeyNeeds' =
                 [outsideTableFkeyNeeds EXCEPT ![tableName] = @ \cup {colName}]
            /\ tableFkeyNeeds' = Needs(tableName, colName)
            /\ fkeyCols' = [fkeyCols EXCEPT ![currentTable][colName] = foreignKeyCol]
            /\ tableDependencyFKeys' =
                 [tableDependencyFKeys EXCEPT ![tableName][foreignTableName] = colName]
            /\ fkeys' = [fkeys EXCEPT ![tableName][foreignTableName] = colName]
            /\ invFkeys' = [invFkeys EXCEPT ![tableName][foreignTableName] = foreignKeyCol]
    /\ UNCHANGED << pc, processed, currentTable, directDescendants, family, mainVars,
                    sortVars, dataVars, abortedAt >>

\* The supporters query is complete; the columns query only fills tableCols,
\* which nothing reads afterwards.
EndParents ==
    /\ pc = "parents"
    /\ {r \in catalog : r.tableName = currentTable} \subseteq returned
    /\ returned' = {}
    /\ processed' = processed \cup {currentTable}
    /\ pc' = "bfs"
    /\ UNCHANGED << catalog, currentTable, q, seen, directDescendants,
                    outsideTables, deps, inv, fkeys, invFkeys, fkeyCols,
                    tableFkeyNeeds, outsideTableFkeyNeeds, tableDependencyFKeys,
                    family, mainVars, sortVars, dataVars, abortedAt >>

\* Every order in which the elements of a hash container can be iterated.
RECURSIVE Orders(_)
Orders(set) ==
    IF set = {} THEN {<< >>}
    ELSE UNION {{<< x >> \o s : s \in Orders(set \ {x})} : x \in set}

\* The orders in which the needed columns of a table are iterated, and the
\* exit statuses of an external copy command.  In the wide family the columns
\* come in table order and the commands succeed.
ColumnOrders(set) ==
    IF family \in {"wide", "broad"} THEN {SelectSeq(Columns, LAMBDA c : c \in set)}
    ELSE Orders(set)
ExitStatuses == IF family \in {"wide", "broad"} THEN {0} ELSE {0, 1}

\* The outside tables that no other outside table references.
OutsiderSeeds ==
    {table \in outsideTables :
        ~ \E t \in inv[table] : \E o \in outsideTables : o # table /\ t = o}

\* The discovery loop has ended: the partition is asserted and the first sort
\* is seeded with the tables that depend on nothing.
EndDiscovery ==
    /\ pc = "bfs"
    /\ q = << >>
    /\ IF Cardinality(outsideTables) + Cardinality(directDescendants) = Cardinality(seen)
       THEN /\ \E order \in Orders({table \in seen : deps[table] = {}}) : S' = order
            /\ invCopyS' = inv
            /\ depsCopyS' = deps
            /\ pc' = "kahn"
            /\ UNCHANGED abortedAt
       ELSE /\ pc' = "aborted"
            /\ abortedAt' = PartitionAssertion
            /\ UNCHANGED << S, invCopyS, depsCopyS >>
    /\ UNCHANGED << family, mainVars, discoveryVars, L, O, othersL, dataVars >>

\* A variant of the push test that pushes every table the loop visits.
PushedAll(table) == invCopyS[table]
\* One pass of a sort loop over invCopyS[table]: the tables it pushes, and
\* the edge maps after the erasures.
Pushed(table) == {m \in invCopyS[table] : Cardinality(depsCopyS[m]) = 1}
InvErased(table) == [invCopyS EXCEPT ![table] = {}]
DepsErased(table) ==
    [m \in Tables |-> IF m \in invCopyS[table] THEN depsCopyS[m] \ {table}
                                               ELSE depsCopyS[m]]

\* Kahn's algorithm, one iteration.
KahnStep ==
    /\ pc = "kahn"
    /\ S # << >>
    /\ L' = Append(L, Head(S))
    /\ \E order \in Orders(Pushed(Head(S))) : S' = Tail(S) \o order
    /\ invCopyS' = InvErased(Head(S))
    /\ depsCopyS' = DepsErased(Head(S))
    /\ UNCHANGED << family, mainVars, pc, discoveryVars, O, othersL, dataVars, abortedAt >>

\* The first sort has ended; the sort of the outside tables is seeded.
KahnDone ==
    /\ pc = "kahn"
    /\ S = << >>
    /\ \E order \in Orders(OutsiderSeeds) : O' = order
    /\ pc' = "kahnOthers"
    /\ UNCHANGED << family, mainVars, discoveryVars, S, L, invCopyS, depsCopyS, othersL,
                    dataVars, abortedAt >>

\* The sort of the outside tables, one iteration: it walks the edge maps the
\* first sort has left and pushes on S, not on O.
OthersStep ==
    /\ pc = "kahnOthers"
    /\ O # << >>
    /\ O' = Tail(O)
    /\ othersL' = Append(othersL, Head(O))
    /\ \E order \in Orders(Pushed(Head(O))) : S' = S \o order
    /\ invCopyS' = InvErased(Head(O))
    /\ depsCopyS' = DepsErased(Head(O))
    /\ UNCHANGED << family, mainVars, pc, discoveryVars, L, dataVars, abortedAt >>

OthersDone ==
    /\ pc = "kahnOthers"
    /\ O = << >>
    /\ pc' = "rootQuery"
    /\ UNCHANGED << family, mainVars, discoveryVars, sortVars, dataVars, abortedAt >>


(***************************************************************************)
(* The contents of the source tables.  Every table has the same columns; a *)
(* row maps each column to its value converted to a string, the empty      *)
(* string for a NULL.  A table's contents are drawn when the table is      *)
(* first read, within the key constraints the database enforces.           *)
(***************************************************************************)
MaxRows == 1

Null == ""
Rows ==
    IF family \in {"wide", "broad"} THEN {[c \in ColumnSet |-> "1"]}
    ELSE {r \in [ColumnSet -> {"1", "2", Null}] : r["id"] # Null}
RootIds == {"1"}

\* The primary key id and every referenced column hold no value twice.
KeysUnique(t, rows) ==
    \A r1 \in rows : \A r2 \in rows \ {r1} :
        /\ r1["id"] # r2["id"]
        /\ \A e \in catalog :
             e.foreign_table_name = t =>
                \/ r1[e.foreign_column_name] = Null
                \/ r1[e.foreign_column_name] # r2[e.foreign_column_name]

\* Every foreign key value of a row is the referenced value of a row of the
\* parent, as far as both tables have been read.
KeysReferenced(t, rows) ==
    \A e \in catalog :
        LET now == [read |-> TRUE, rows |-> rows]
            children == IF e.tableName = t THEN now ELSE db[e.tableName]
            parents == IF e.foreign_table_name = t THEN now
                       ELSE db[e.foreign_table_name]
        IN  (t \in {e.tableName, e.foreign_table_name}
                /\ children.read /\ parents.read) =>
            \A c \in children.rows :
                \/ c[e.column_name] = Null
                \/ \E p \in parents.rows :
                      p[e.foreign_column_name] = c[e.column_name]

Contents(t) ==
    IF db[t].read THEN {db[t].rows}
    ELSE IF family \in {"wide", "broad"} THEN {Rows}
    ELSE {rows \in SUBSET Rows :
            /\ Cardinality(rows) <= (IF family = "tall" THEN TallRows ELSE MaxRows)
            /\ KeysUnique(t, rows)
            /\ KeysReferenced(t, rows)}

(***************************************************************************)
(* Reading and writing the delimited files.  A line is kept as the cells   *)
(* that were joined with DELIMITER to write it.                            *)
(***************************************************************************)
\* The cells the loop  while(std::getline(lineStream, cell, DELIMITER))
\* yields from a line: a last empty cell is not delivered.
SplitLine(cells) ==
    IF cells = << >> \/ cells = << "" >> THEN << >>
    ELSE IF cells[Len(cells)] = "" THEN SubSeq(cells, 1, Len(cells) - 1)
    ELSE cells

\* What reading values[index] of a vector beyond its size may do: end the
\* process, or yield some string.
Crash == "crash"
Garbage == {Crash, "1", Null}
InBounds(values, index) == 0 <= index /\ index < Len(values)
CellAt(values, index, garbage) ==
    IF InBounds(values, index) THEN values[index + 1] ELSE garbage

\* The line the row handler of doTableDataSearch writes for a result row.
RowCells(row) == [i \in 1 .. Len(Columns) |-> row[Columns[i]]]

\* Row::field_index, counted from 0.
FieldIndex(col) == (CHOOSE i \in 1 .. Len(Columns) : Columns[i] = col) - 1

\* Conversion to the int8_t of the colIndexes map.
Int8(n) == LET m == n % 256 IN IF m >= 128 THEN m - 256 ELSE m

ColumnIndexesFromRow(columns) == [col \in columns |-> Int8(FieldIndex(col))]

\* A variant of the RawColumn list that holds every column of the table.
EveryRawColumn(order) ==
    [i \in 1 .. Len(Columns) |->
        [name |-> Columns[i], index |-> ColumnIndexesFromRow(ColumnSet)[Columns[i]]]]
\* The RawColumn list of doTableDataSearch for one iteration order of the
\* needed columns.
RawColumns(order) ==
    [i \in 1 .. Len(order) |->
        [name |-> order[i], index |-> ColumnIndexesFromRow(ColumnSet)[order[i]]]]

\* parseRawRowData: the lines written to the parsed file.
ParsedRow(line, cols, garbage) ==
    [i \in 1 .. Len(cols) |-> CellAt(SplitLine(line), cols[i].index, garbage)]
\* A variant of parseRawRowData that writes no header line.
ParseWithoutHeader(lines, cols, garbage) ==
    IF Len(cols) = 0 \/ Len(lines) = 0 THEN << >>
    ELSE [n \in 1 .. Len(lines) |-> ParsedRow(lines[n], cols, garbage)]
ParseRawRowData(lines, cols, garbage) ==
    IF Len(cols) = 0 \/ Len(lines) = 0 THEN << >>
    ELSE << [i \in 1 .. Len(cols) |-> cols[i].name] >>
         \o [n \in 1 .. Len(lines) |-> ParsedRow(lines[n], cols, garbage)]
\* The raw lines whose parse reads a cell that is not there.
ParseOutOfBounds(lines, cols) ==
    {n \in 1 .. Len(lines) :
        \E i \in 1 .. Len(cols) : ~InBounds(SplitLine(lines[n]), cols[i].index)}

\* getValuesForTable: the failed assertion if any, whether a cell was read
\* out of bounds, and the values returned.
GetValuesForTable(tableName, dependantTable, option, garbage) ==
    LET fkeysVal == IF option = "desc" THEN fkeys[tableName][dependantTable]
                    ELSE fkeys[dependantTable][tableName]
        fkeyCol == IF option = "desc"
                   THEN fkeyCols[dependantTable][fkeys[tableName][dependantTable]]
                   ELSE fkeysVal
        infile == parsedFile[dependantTable].lines
        header == SplitLine(infile[1])
        hits == {idx \in 1 .. Len(header) : header[idx] = fkeyCol}
        fkeyColIndex == (CHOOSE idx \in hits : \A j \in hits : idx <= j) - 1
    IN  IF ~parsedFile[dependantTable].exists
        THEN [failed |-> FileOpenAssertion, outOfBounds |-> FALSE, values |-> << >>]
        ELSE IF infile = << >>
        THEN [failed |-> "", outOfBounds |-> FALSE, values |-> << >>]
        ELSE IF hits = {}
        THEN [failed |-> ColumnFoundAssertion, outOfBounds |-> FALSE,
              values |-> << >>]
        ELSE [failed |-> "",
              outOfBounds |-> \E n \in 2 .. Len(infile) :
                                ~InBounds(SplitLine(infile[n]), fkeyColIndex),
              values |-> [n \in 1 .. Len(infile) - 1 |->
                            CellAt(SplitLine(infile[n + 1]), fkeyColIndex, garbage)]]

Range(seq) == {seq[i] : i \in 1 .. Len(seq)}
NonEmpty(val) == val # ""
\* The tables whose parsed file the WHERE clause of a table reads.
DescendantParents(tableName) ==
    {dependantTable \in deps[tableName] : IsDirectDescendant(dependantTable)}
Referrers(tableName) == inv[tableName]

\* The WHERE clause of a table: its disjuncts "<col>" IN (<values>), with
\* what went wrong while the values were read.
WhereOf(readers, disjuncts) ==
    [failed |-> {r.failed : r \in readers} \ {""},
     outOfBounds |-> \E r \in readers : r.outOfBounds,
     disjuncts |-> disjuncts]

dataSearchDescendantWhere(tableName, garbage) ==
    IF tableName = root
    THEN WhereOf({}, {[col |-> "id", values |-> << rootId >>]})
    ELSE LET got == [d \in DescendantParents(tableName) |->
                        GetValuesForTable(tableName, d, "desc", garbage)]
         IN  WhereOf({got[d] : d \in DOMAIN got},
                     {[col |-> tableDependencyFKeys[tableName][d],
                       values |-> got[d].values] :
                        d \in {x \in DOMAIN got : Len(got[x].values) > 0}})

dataSearchNonDescendantWhere(tableName, garbage) ==
    LET got == [d \in Referrers(tableName) |->
                   GetValuesForTable(tableName, d, "nondesc", garbage)]
        noNulls == [d \in DOMAIN got |-> SelectSeq(got[d].values, NonEmpty)]
    IN  WhereOf({got[d] : d \in DOMAIN got},
                {[col |-> invFkeys[d][tableName], values |-> noNulls[d]] :
                    d \in {x \in DOMAIN got : Len(noNulls[x]) > 0}})

dataSearchTable(tableName, option, garbage) ==
    IF option = "desc" THEN dataSearchDescendantWhere(tableName, garbage)
    ELSE dataSearchNonDescendantWhere(tableName, garbage)

\* The server rejects the query: an IN list with an empty element, or a
\* name that is no column of the table.
Rejected(where) ==
    \E d \in where.disjuncts : d.col \notin ColumnSet \/ "" \in Range(d.values)

\* The rows SELECT * FROM <table> <where> returns.
Selected(rows, where) ==
    {r \in rows : \E d \in where.disjuncts :
                    r[d.col] # Null /\ r[d.col] \in Range(d.values)}


\* A variant of descendantSet that lists the direct descendants in the
\* reverse of the order of L.
ReverseDescendants(order) ==
    LET kept == SelectSeq(order, LAMBDA l : l \in directDescendants)
    IN  [i \in 1 .. Len(kept) |-> kept[Len(kept) + 1 - i]]
\* descendantSet: the direct descendants in the order of L.
DescendantSetOf(order) ==
    SelectSeq(order, LAMBDA l : IsDirectDescendant(l))

\* The query for the root row, the read of its first id, and the list of the
\* descendant pass.  The read of element 0 of an empty vector is undefined.
RootQuery ==
    /\ pc = "rootQuery"
    /\ \E id \in RootIds, rows \in Contents(root),
          outcome \in {"descendants", "crashed"} :
        LET found == {r \in rows : r["id"] = id}
        IN  /\ rootId' = id
            /\ db' = [db EXCEPT ![root] = [read |-> TRUE, rows |-> rows]]
            /\ \E order \in Orders(found) :
                 tableColValues' = [i \in 1 .. Len(order) |-> order[i]["id"]]
            /\ found # {} => outcome = "descendants"
            /\ pc' = outcome
    /\ descendantSet' = DescendantSetOf(L)
    /\ pos' = 1
    /\ UNCHANGED << family, mainVars, discoveryVars, sortVars, rawFile, parsedFile,
                    totalRows, colIndexes, copyResult, copyReported, loaded,
                    abortedAt >>

\* A variant in which a non-zero exit status ends the run.
AfterSystemOrAbort(result) == IF result = 0 THEN pc ELSE "aborted"
\* int result = system(cmd.c_str()): the status decides what is printed and
\* nothing else; the loop goes on where it is.
AfterSystem(result) == pc

\* One iteration of the loop of doTableDataSearch.
DoTableDataSearch(tableName, neededFKeys, option) ==
    \E garbage \in Garbage, rows \in Contents(tableName), result \in ExitStatuses :
      LET where == dataSearchTable(tableName, option, garbage)
          neededFkeyColumns == neededFKeys[tableName]
      IN
      /\ db' = [db EXCEPT ![tableName] = [read |-> TRUE, rows |-> rows]]
      /\ IF where.failed # {}
         THEN /\ pc' = "aborted"
              /\ abortedAt' \in where.failed
              /\ UNCHANGED << pos, rawFile, parsedFile, totalRows, colIndexes,
                              copyResult, copyReported >>
         ELSE IF where.outOfBounds /\ garbage = Crash
         THEN /\ pc' = "crashed"
              /\ UNCHANGED << pos, rawFile, parsedFile, totalRows, colIndexes,
                              copyResult, copyReported, abortedAt >>
         ELSE
           /\ copyResult' = result
           /\ copyReported' = (result = 0)
           /\ UNCHANGED abortedAt
           /\ IF Rejected(where)
              THEN /\ pc' = "handled"
                   /\ rawFile' = [rawFile EXCEPT ![tableName] = File(<< >>)]
                   /\ parsedFile' = [parsedFile EXCEPT ![tableName] = File(<< >>)]
                   /\ colIndexes' = NoIndexes
                   /\ UNCHANGED << pos, totalRows >>
              ELSE \E delivered \in Orders(Selected(rows, where)),
                      order \in ColumnOrders(neededFkeyColumns) :
                   LET lines == [i \in 1 .. Len(delivered) |-> RowCells(delivered[i])]
                       cols == RawColumns(order)
                       bad == ParseOutOfBounds(lines, cols)
                       parse == Len(lines) > 0 /\ Len(cols) > 0
                       out == ParseRawRowData(lines, cols, garbage)
                       first == CHOOSE n \in bad : \A k \in bad : n <= k
                   IN  /\ rawFile' = [rawFile EXCEPT ![tableName] = File(lines)]
                       /\ colIndexes' = IF Len(lines) > 0
                                        THEN ColumnIndexesFromRow(neededFkeyColumns)
                                        ELSE NoIndexes
                       /\ IF parse /\ bad # {} /\ garbage = Crash
                          THEN /\ pc' = "crashed"
                               /\ parsedFile' = [parsedFile EXCEPT ![tableName] =
                                    File(IF first = 1 THEN << >>
                                         ELSE SubSeq(out, 1, first))]
                               /\ totalRows' = totalRows + first
                               /\ UNCHANGED pos
                          ELSE /\ parsedFile' = [parsedFile EXCEPT ![tableName] =
                                    File(IF parse THEN out ELSE << >>)]
                               /\ totalRows' = IF parse THEN totalRows + Len(lines)
                                               ELSE totalRows
                               /\ pos' = pos + 1
                               /\ pc' = AfterSystem(result)

\* A variant in which a pass may end after any of its tables.
PassLeft(tableList) == pos > 1
\* for(auto& tableName : tableList): the loop has gone through the list.
PassFinished(tableList) == pos > Len(tableList)

\* doTableDataSearch(descendantSet, tableFkeyNeeds), one table.
DescendantSearch ==
    /\ pc = "descendants"
    /\ pos <= Len(descendantSet)
    /\ DoTableDataSearch(descendantSet[pos], tableFkeyNeeds, "desc")
    /\ UNCHANGED << family, mainVars, discoveryVars, sortVars, rootId, tableColValues,
                    descendantSet, loaded >>

\* A variant that keeps the tables the sort of the outside tables has placed.
PlacedOutsideSet == Range(othersL)
\* for(auto& [t, ot] : outsideTables) outsideSet.push_back(t);
OutsideSet == outsideTables

\* The descendant pass has ended; othersL becomes the outside tables in the
\* iteration order of the map.
DescendantsDone ==
    /\ pc = "descendants"
    /\ PassFinished(descendantSet)
    /\ \E outsideSet \in Orders(OutsideSet) : othersL' = outsideSet
    /\ pos' = 1
    /\ pc' = "outsiders"
    /\ UNCHANGED << family, mainVars, discoveryVars, S, L, invCopyS, depsCopyS, O, rootId,
                    db, tableColValues, descendantSet, rawFile, parsedFile,
                    totalRows, colIndexes, copyResult, copyReported, loaded,
                    abortedAt >>

\* doTableDataSearch(othersL, outsideTableFkeyNeeds, "nonDesc"), one table.
OutsiderSearch ==
    /\ pc = "outsiders"
    /\ pos <= Len(othersL)
    /\ DoTableDataSearch(othersL[pos], outsideTableFkeyNeeds, "nonDesc")
    /\ UNCHANGED << family, mainVars, discoveryVars, sortVars, rootId, tableColValues,
                    descendantSet, loaded >>

OutsidersDone ==
    /\ pc = "outsiders"
    /\ PassFinished(othersL)
    /\ pos' = 1
    /\ pc' = "load"
    /\ UNCHANGED << family, mainVars, discoveryVars, sortVars, rootId, db, tableColValues,
                    descendantSet, rawFile, parsedFile, totalRows, colIndexes,
                    copyResult, copyReported, loaded, abortedAt >>

\* A variant of the load list, last table first.
LoadListReversed == [i \in 1 .. Len(L) |-> L[Len(L) + 1 - i]]
\* for(auto& t : L): the tables the load loop goes through.
LoadList == L

\* The load loop over L, one copy-from command.
LoadStep ==
    /\ pc = "load"
    /\ pos <= Len(LoadList)
    /\ \E commandSysResult \in ExitStatuses :
        /\ copyResult' = commandSysResult
        /\ copyReported' = (commandSysResult # 0)
        /\ pc' = AfterSystem(commandSysResult)
    /\ loaded' = Append(loaded, LoadList[pos])
    /\ pos' = pos + 1
    /\ UNCHANGED << family, mainVars, discoveryVars, sortVars, rootId, db,
                    tableColValues, descendantSet, rawFile, parsedFile,
                    totalRows, colIndexes, abortedAt >>

\* The run ends and main returns 0.
LoadDone ==
    /\ pc = "load"
    /\ pos > Len(LoadList)
    /\ pc' = "done"
    /\ UNCHANGED << family, mainVars, discoveryVars, sortVars, dataVars, abortedAt >>

\* The run has ended: main has returned or the process was ended.
Ended == pc \in {"done", "handled", "aborted", "crashed"}
\* The exit status of the process. After the load loop main falls off its
\* end (0). The handler of pgfe::Server_exception prints the error, asserts
\* that it is a syntax error and also falls off the end of main (0); only
\* the handler of std::exception returns 1. A failed assert calls abort()
\* (SIGABRT, status 134) and a wild read ends the process by a signal
\* (SIGSEGV, status 139); neither goes through a handler.
ExitCode ==
    CASE pc = "done" -> 0
      [] pc = "handled" -> 0
      [] pc = "aborted" -> 134
      [] pc = "crashed" -> 139
      [] OTHER -> -1

Next ==
    \/ Dequeue
    \/ ChildRow
    \/ EndChildren
    \/ ParentRow
    \/ EndParents
    \/ EndDiscovery
    \/ KahnStep
    \/ KahnDone
    \/ OthersStep
    \/ OthersDone
    \/ RootQuery
    \/ DescendantSearch
    \/ DescendantsDone
    \/ OutsiderSearch
    \/ OutsidersDone
    \/ LoadStep
    \/ LoadDone

Spec == Init /\ [][Next]_vars

SpecWide == InitWide /\ [][Next]_vars

SpecTall == InitTall /\ [][Next]_vars
SpecBroad == InitBroad /\ [][Next]_vars

(***************************************************************************)
(* The older engine, main.cpp.  Its discovery writes q, seen, deps and inv *)
(* as the discovery above does and keeps no partition of the tables; its   *)
(* sort is the first sort above, run on deps and inv themselves after      *)
(* depCopy has kept a copy of deps, so that depCopy is deps here and its   *)
(* drained maps are depsCopyS and invCopyS.  After the sort it runs the    *)
(* tables in the data-search order.                                        *)
(***************************************************************************)
\* The discovery loop has ended: depCopy is taken and the sort is seeded with
\* the tables that depend on nothing.
MainEndDiscovery ==
    /\ pc = "bfs"
    /\ q = << >>
    /\ \E order \in Orders({table \in seen : deps[table] = {}}) : S' = order
    /\ invCopyS' = inv
    /\ depsCopyS' = deps
    /\ pc' = "kahn"
    /\ UNCHANGED << family, mainVars, discoveryVars, L, O, othersL, dataVars,
                    abortedAt >>

\* The root, then the tables of the list from the last to the first, the
\* root skipped.
SearchOrderOf(list) ==
    << root >> \o
    [i \in 1 .. Len(SelectSeq(list, LAMBDA t : t # root)) |->
        SelectSeq(list, LAMBDA t : t # root)
            [Len(SelectSeq(list, LAMBDA t : t # root)) + 1 - i]]

\* The sort has ended: the data-search order is built from L.
MainKahnDone ==
    /\ pc = "kahn"
    /\ S = << >>
    /\ dataSearchOrder' = SearchOrderOf(L)
    /\ pc' = "runTables"
    /\ UNCHANGED << family, ran, discoveryVars, sortVars, dataVars, abortedAt >>

\* One iteration of the loop over dataSearchOrder: runTable is invoked on
\* the next table and builds its query from depCopy.
RunTable ==
    /\ pc = "runTables"
    /\ Len(ran) < Len(dataSearchOrder)
    /\ ran' = Append(ran, dataSearchOrder[Len(ran) + 1])
    /\ UNCHANGED << family, pc, dataSearchOrder, discoveryVars, sortVars,
                    dataVars, abortedAt >>

RunTablesDone ==
    /\ pc = "runTables"
    /\ Len(ran) = Len(dataSearchOrder)
    /\ pc' = "done"
    /\ UNCHANGED << family, mainVars, discoveryVars, sortVars, dataVars,
                    abortedAt >>

NextMain ==
    \/ Dequeue
    \/ ChildRow
    \/ EndChildren
    \/ ParentRow
    \/ EndParents
    \/ MainEndDiscovery
    \/ KahnStep
    \/ MainKahnDone
    \/ RunTable
    \/ RunTablesDone

SpecMain == InitWide /\ [][NextMain]_vars

\* The program is sequential: as long as main has a next step it takes it.
FairSpec == Init /\ [][Next]_vars /\ WF_vars(Next)

(***************************************************************************)
(* Properties of the discovery and of the two sorts.                       *)
(***************************************************************************)
DiscoveryEnded == pc \notin {"bfs", "children", "parents"}
SortEnded == DiscoveryEnded /\ pc \notin {"kahn", "aborted"}
Extracting == pc \in {"descendants", "outsiders", "load", "done", "handled", "crashed"}

\* The tables that reference a table of the set directly or through a chain
\* of foreign keys of the database, and the tables a set references likewise.
RECURSIVE ReferrersClosure(_)
ReferrersClosure(set) ==
    LET more == set \cup {r.tableName : r \in {x \in catalog : x.foreign_table_name \in set}}
    IN  IF more = set THEN set ELSE ReferrersClosure(more)
RECURSIVE ReferencedClosure(_)
ReferencedClosure(set) ==
    LET more == set \cup {r.foreign_table_name : r \in {x \in catalog : x.tableName \in set}}
    IN  IF more = set THEN set ELSE ReferencedClosure(more)
ReferencedBy(t) == {r.foreign_table_name : r \in {x \in catalog : x.tableName = t}}
OnCycle(t) == t \in ReferencedClosure(ReferencedBy(t))
Acyclic == \A t \in seen : ~OnCycle(t)
SelfReferential(t) == t \in ReferencedBy(t)
Position(seq, x) == CHOOSE i \in 1 .. Len(seq) : seq[i] = x

\* C3: at the end of discovery of an acyclic graph the direct descendants and
\* the outside tables are disjoint, their union is the reached set, and the
\* assertion outsideTables.size() + directDescendants.size() == seen.size()
\* holds.
C3_PartitionAtEndOfDiscovery ==
    (DiscoveryEnded /\ Acyclic) =>
        /\ directDescendants \cap outsideTables = {}
        /\ directDescendants \cup outsideTables = seen
        /\ abortedAt # PartitionAssertion

\* C4: at the end of discovery the tables marked direct descendants are
\* exactly the tables that reference the root directly or through a chain of
\* references.
C4_DescendantsAreClosureOfRoot ==
    DiscoveryEnded => directDescendants = ReferrersClosure({root})

\* C5: every table marked a direct descendant references the root through a
\* chain of foreign keys (the root itself is the empty chain).
C5_DescendantsReachRoot ==
    \A t \in directDescendants : root \in ReferencedClosure({t})
\* A table two references away from the root has been marked.
C5_Witness ==
    /\ pc = "kahn"
    /\ Acyclic
    /\ \E t \in directDescendants \ {root} :
          /\ root \notin ReferencedBy(t)
          /\ root \in ReferencedClosure({t})
    /\ outsideTables # {}

\* C6: for an acyclic graph the order L of the first sort holds every reached
\* table exactly once, and every table comes after the tables it references.
C6_OrderSoundness ==
    (SortEnded /\ Acyclic) =>
        /\ Len(L) = Cardinality(seen)
        /\ {L[i] : i \in 1 .. Len(L)} = seen
        /\ \A a \in seen : \A b \in deps[a] : Position(L, b) < Position(L, a)
\* The sort has ordered a graph in which one table has two parents and one
\* parent has two children.
C6_Witness ==
    /\ SortEnded
    /\ Acyclic
    /\ \E a \in seen : Cardinality(deps[a]) = 2
    /\ \E b \in seen : Cardinality(inv[b]) = 2
    /\ Len(L) >= 4

\* C7: when the reached graph has a cycle, so that the first sort ends with
\* fewer tables in L than were reached, the run extracts no table, loads no
\* table and does not end as a success.
C7_CycleIsFatal ==
    (SortEnded /\ Len(L) < Cardinality(seen)) =>
        /\ \A t \in Tables : ~rawFile[t].exists
        /\ loaded = << >>
        /\ pc # "done"

\* C8: a table with a foreign key to itself is in L whenever the run goes on
\* to the passes after the sort.
C8_SelfReferenceNotDropped ==
    \A t \in seen :
        (Extracting /\ SelfReferential(t)) => t \in {L[i] : i \in 1 .. Len(L)}

(***************************************************************************)
(* Properties of the two data-search passes.                               *)
(***************************************************************************)
\* The tables the pass in progress has completed.
ProcessedIn(tableList) ==
    {tableList[i] : i \in {j \in 1 .. Len(tableList) : j < pos}}

\* The direct descendants that the table the descendant pass is about to
\* process references have been processed in the pass, and their parsed files
\* exist.
ParentsReady ==
    (pc = "descendants" /\ pos <= Len(descendantSet) /\ descendantSet[pos] # root) =>
        \A d \in DescendantParents(descendantSet[pos]) :
            d \in ProcessedIn(descendantSet) /\ parsedFile[d].exists

\* C1: in the descendant pass, when a direct descendant other than the root
\* is about to be processed, every direct descendant it references has been
\* processed in the pass and its parsed file exists; and no step of the pass
\* fails the assertion infile.is_open().
C1_DescendantPassOrder ==
    /\ []ParentsReady
    /\ [][pc = "descendants" => abortedAt' # FileOpenAssertion]_vars
\* The pass is about to process a table that reads the parsed files of two
\* parents.
C1_Witness ==
    /\ pc = "descendants"
    /\ pos <= Len(descendantSet)
    /\ descendantSet[pos] # root
    /\ Cardinality(DescendantParents(descendantSet[pos])) = 2
    /\ outsideTables # {}

\* C2: in the outsider pass, when an outside table of an acyclic graph is
\* about to be processed, every table that references it has been processed
\* (in the descendant pass or earlier in this pass) and its parsed file
\* exists.
C2_ReferrersReady ==
    (pc = "outsiders" /\ pos <= Len(othersL) /\ Acyclic) =>
        \A d \in inv[othersL[pos]] :
            /\ d \in Range(descendantSet) \cup ProcessedIn(othersL)
            /\ parsedFile[d].exists

\* The values the parsed file of a table lists in a column, and the column a
\* foreign key column of a table references.
ParsedValues(t, col) ==
    LET lines == parsedFile[t].lines
        header == IF lines = << >> THEN << >> ELSE lines[1]
    IN  {lines[n][i] : n \in 2 .. Len(lines),
                       i \in {j \in 1 .. Len(header) : header[j] = col}}
ForeignKeysOn(t, col) == {e \in catalog : e.tableName = t /\ e.column_name = col}
FileRows(file) == {file.lines[n] : n \in 1 .. Len(file.lines)}

\* The rows of a direct descendant that reference a row of a parent: the
\* foreign key column holds a value the parent's parsed file lists in the
\* referenced column.
DescendantRows(t) ==
    {r \in db[t].rows :
        \E p \in DescendantParents(t) :
            \E e \in ForeignKeysOn(t, tableDependencyFKeys[t][p]) :
                /\ r[e.column_name] # Null
                /\ r[e.column_name] \in ParsedValues(p, e.foreign_column_name)}

\* C9: the raw file of a direct descendant other than the root holds exactly
\* the rows whose foreign key column holds a value that the parsed file of a
\* direct-descendant parent lists in the referenced column.
C9_DescendantFilterExact ==
    pc = "descendants" =>
        \A t \in ProcessedIn(descendantSet) \ {root} :
            FileRows(rawFile[t]) = {RowCells(r) : r \in DescendantRows(t)}

\* The rows of an outside table that a referrer references: the referenced
\* column invFkeys[d][t] holds a value the referrer's parsed file lists, as a
\* non-empty string, in a foreign key column that references it.
OutsiderRows(t) ==
    {r \in db[t].rows :
        \E d \in inv[t] :
            \E e \in {x \in catalog : /\ x.tableName = d
                                      /\ x.foreign_table_name = t
                                      /\ x.foreign_column_name = invFkeys[d][t]} :
                /\ r[e.foreign_column_name] # Null
                /\ r[e.foreign_column_name] \in ParsedValues(d, e.column_name)}

\* C10: the raw file of an outside table holds exactly the rows whose
\* referenced column holds a value that a referrer's parsed file lists as a
\* non-empty string in its foreign key column.
C10_OutsiderFilterExact ==
    pc = "outsiders" =>
        \A t \in ProcessedIn(othersL) :
            FileRows(rawFile[t]) = {RowCells(r) : r \in OutsiderRows(t)}

(***************************************************************************)
(* Properties of the files a pass writes.                                  *)
(***************************************************************************)
\* The needed columns the pass that processes a table hands to
\* doTableDataSearch: tableFkeyNeeds in the descendant pass,
\* outsideTableFkeyNeeds in the outsider pass.
NeededColumns(t) ==
    IF t \in directDescendants THEN tableFkeyNeeds[t] ELSE outsideTableFkeyNeeds[t]

\* The parsed file of a table projects its raw file on the given columns: the
\* header names each of them once, and every data line holds, in the order of
\* the header, the cells of the raw line at the same position (as far as the
\* split of the raw line delivers them).
Projects(t, columns) ==
    LET lines == parsedFile[t].lines
        raw == rawFile[t].lines
        header == lines[1]
    IN  /\ Range(header) = columns
        /\ Len(header) = Cardinality(columns)
        /\ Len(lines) - 1 <= Len(raw)
        /\ \A n \in 2 .. Len(lines) :
             /\ Len(lines[n]) = Len(header)
             /\ \A j \in 1 .. Len(header) :
                  InBounds(SplitLine(raw[n - 1]), FieldIndex(header[j])) =>
                      lines[n][j] = raw[n - 1][FieldIndex(header[j]) + 1]

ProcessedTables ==
    IF pc = "descendants" THEN ProcessedIn(descendantSet)
    ELSE IF pc = "outsiders" THEN Range(descendantSet) \cup ProcessedIn(othersL)
    ELSE IF pc \in {"load", "done"} THEN Range(descendantSet) \cup Range(othersL)
    ELSE {}

RootRowMissing ==
    /\ db[root].read
    /\ pc \notin {"bfs", "children", "parents", "kahn", "kahnOthers", "rootQuery"}
    /\ ~ \E r \in db[root].rows : r["id"] = rootId

\* C14: when the root id matches no row of the root table the run does not
\* fail: it goes on to the passes and the load, every raw file it writes is
\* empty and no line is written to a parsed file.
C14_MissingRootRowCompletes ==
    RootRowMissing =>
        /\ pc \in {"descendants", "outsiders", "load", "done"}
        /\ \A t \in Tables : rawFile[t].lines = << >> /\ parsedFile[t].lines = << >>

\* Discovery has ended and no foreign key of the database references the root.
RootUnreferenced ==
    /\ DiscoveryEnded
    /\ ~ \E r \in catalog : r.foreign_table_name = root
Extracted == {t \in Tables : rawFile[t].exists}

Introspecting == IF pc \in {"children", "parents"} THEN {currentTable} ELSE {}

\* Every reached table is in exactly one place: waiting in the queue (once),
\* being introspected, or introspected.
QueueDiscipline ==
    /\ \A i \in 1 .. Len(q) : \A j \in 1 .. Len(q) : q[i] = q[j] => i = j
    /\ Range(q) \cap processed = {}
    /\ Range(q) \cap Introspecting = {}
    /\ Introspecting \cap processed = {}
    /\ seen = Range(q) \cup Introspecting \cup processed
    /\ DiscoveryEnded => (q = << >> /\ processed = seen)

\* C16: discovery terminates, also for graphs with cycles and
\* self-references; no table is in the queue twice or again after it has been
\* dequeued, and when discovery has ended every reached table has been
\* dequeued and introspected, once.
C16_DiscoveryTerminates ==
    /\ []QueueDiscipline
    /\ [][pc = "bfs" /\ pc' = "children" =>
            (currentTable' = Head(q) /\ currentTable' \notin processed)]_vars
    /\ [][processed \subseteq processed']_vars
    /\ <>DiscoveryEnded
\* Discovery has ended for a graph with a cycle through two tables, each of
\* them introspected.
C16_Witness ==
    /\ DiscoveryEnded
    /\ \E t \in seen : OnCycle(t) /\ ~SelfReferential(t)
    /\ Cardinality(seen) >= 2
    /\ processed = seen

\* C17: after discovery, for every foreign-key edge an introspection query
\* returned, deps of the child holds the parent and inv of the parent holds
\* the child; and m is in inv[t] exactly when t is in deps[m].
C17_DepsAndInvHoldEveryEdge ==
    DiscoveryEnded =>
        /\ \A r \in catalog :
              /\ r.foreign_table_name \in deps[r.tableName]
              /\ r.tableName \in inv[r.foreign_table_name]
        /\ \A t \in Tables : \A m \in Tables : m \in inv[t] <=> t \in deps[m]
\* Discovery has ended with edges found by the children query and by the
\* parents query: a table that both references and is referenced by other
\* tables, and the root referencing a table outside its descendants.
C17_Witness ==
    /\ pc = "kahn"
    /\ \E t \in seen : deps[t] \ {t} # {} /\ inv[t] \ {t} # {}
    /\ deps[root] \ {root} # {}
    /\ Cardinality(catalog) >= 4

\* The columns of t that a foreign key of the discovered graph references.
ReferencedColumns(t) ==
    {r.foreign_column_name : r \in {e \in catalog : e.foreign_table_name = t}}
\* The columns of t that are foreign keys of t in the discovered graph.
ReferencingColumns(t) ==
    {r.column_name : r \in {e \in catalog : e.tableName = t}}

C19_LoadFollowsL ==
    /\ pc \notin {"load", "done"} => loaded = << >>
    /\ Len(loaded) <= Len(L)
    /\ loaded = SubSeq(L, 1, Len(loaded))
    /\ \A i \in 1 .. Len(loaded) : \A j \in 1 .. Len(loaded) :
          loaded[i] = loaded[j] => i = j
    /\ \A i \in 1 .. Len(loaded) : \A b \in deps[loaded[i]] :
          \E j \in 1 .. (i - 1) : loaded[j] = b
    /\ pc = "done" => loaded = L
    /\ (pc = "done" /\ Acyclic) =>
          /\ Range(loaded) = seen
          /\ Extracted \subseteq Range(loaded)
\* The load loop has ended for an acyclic graph of at least four tables, with
\* outside tables and with a table that references two others.
C19_Witness ==
    /\ pc = "done"
    /\ Acyclic
    /\ Len(loaded) >= 4
    /\ othersL # << >>
    /\ \E t \in seen : Cardinality(deps[t]) = 2

\* The step of the pass or loop the run is in goes on to the next table with
\* an exit status of the copy command that is zero, or that is not zero.
GoesOn(zero) ==
    ENABLED /\ \/ DescendantSearch
               \/ OutsiderSearch
               \/ LoadStep
            /\ pc' = pc
            /\ pos' = pos + 1
            /\ (copyResult' = 0) = zero

\* C20: a non-zero exit status of a copy command never stops the run:
\* wherever the extraction of a table or the load of a table goes on to the
\* next table after status zero it does so after a non-zero status, a load
\* step always goes on, and a run that has ended normally has extracted
\* every table of both passes and issued the load command of every table
\* of L.
C20_ExitStatusNeverStops ==
    /\ GoesOn(TRUE) => GoesOn(FALSE)
    /\ (pc = "load" /\ pos <= Len(L)) => GoesOn(FALSE)
    /\ pc = "done" =>
          /\ Range(descendantSet) \cup Range(othersL) \subseteq Extracted
          /\ loaded = L
\* The copy command of the first table of a pass has returned a non-zero
\* status, nothing was reported, and the pass is at its second table.
C20_Witness ==
    /\ pc = "descendants"
    /\ pos = 2
    /\ pos <= Len(descendantSet)
    /\ copyResult # 0
    /\ ~copyReported
    /\ rawFile[descendantSet[1]].exists

\* A step in which an external copy command was run: a load step, or an
\* extraction step that got as far as the system() call.
CopyCommandRan ==
    \/ loaded' # loaded
    \/ pc \in {"descendants", "outsiders"} /\ rawFile' # rawFile

\* C21: for every external copy command the table is reported as copied
\* successfully exactly when the exit status of the command is 0.
C21_SuccessReportedIffStatusZero ==
    [][CopyCommandRan => (copyReported' <=> copyResult' = 0)]_vars

\* C22: the process exits with code 0 only on clean completion, and with
\* code 1 whenever the run ends because of an error (an error of the
\* database server, a failed assertion). Runs ended by a wild read are left
\* aside.
C22_ExitCodeTellsErrors ==
    (Ended /\ pc # "crashed") =>
        /\ ExitCode = 0 => pc = "done"
        /\ pc # "done" => ExitCode = 1

\* The place of a control point in the sequence of the phases.
PhaseOf(p) ==
    CASE p \in {"bfs", "children", "parents"} -> 1
      [] p = "kahn" -> 2
      [] p = "kahnOthers" -> 3
      [] p = "rootQuery" -> 4
      [] p = "descendants" -> 5
      [] p = "outsiders" -> 6
      [] p = "load" -> 7
      [] p = "done" -> 8
      [] OTHER -> 9
\* Both files of every table of the list are on disk and closed.
FullyProcessed(tableList) ==
    \A t \in Range(tableList) : rawFile[t].exists /\ parsedFile[t].exists
\* The tables whose files a step writes.
Written == {t \in Tables : rawFile'[t] # rawFile[t] \/ parsedFile'[t] # parsedFile[t]}

\* C23: the phases run strictly in sequence. Discovery is complete before
\* the sort starts and L is built only by the sort; every table of the
\* descendant pass has its raw and parsed file on disk before a file of any
\* other table is written; a step of a pass writes the files of one table,
\* the one the pass is at; no load command is issued before both passes have
\* finished; and control never goes back to an earlier phase or skips one.
C23_PhasesInSequence ==
    /\ [](PhaseOf(pc) \in 2 .. 8 => (q = << >> /\ processed = seen))
    /\ []((\E t \in Tables \ Range(descendantSet) : rawFile[t].exists) =>
            FullyProcessed(descendantSet))
    /\ [](pc = "outsiders" => FullyProcessed(descendantSet))
    /\ [](loaded # << >> =>
            (pc \in {"load", "done"} /\ FullyProcessed(descendantSet)
                                     /\ FullyProcessed(othersL)))
    /\ [][L' # L => pc = "kahn"]_vars
    /\ [][Written # {} =>
            \/ pc = "descendants" /\ Written = {descendantSet[pos]}
            \/ pc = "outsiders" /\ Written = {othersL[pos]}]_vars
    /\ [][PhaseOf(pc') = 9 \/ PhaseOf(pc') \in {PhaseOf(pc), PhaseOf(pc) + 1}]_vars
\* The run has ended normally after a descendant pass over at least two
\* tables and an outsider pass over at least two tables.
C23_Witness ==
    /\ pc = "done"
    /\ Len(descendantSet) >= 2
    /\ Len(othersL) >= 2
    /\ Len(loaded) >= 4

\* The number of lines in the raw files of the tables of a set.
RECURSIVE RawLines(_)
RawLines(set) ==
    IF set = {} THEN 0
    ELSE LET t == CHOOSE x \in set : TRUE
         IN  Len(rawFile[t].lines) + RawLines(set \ {t})

\* C24: the total row count reported at the end of the run equals the number
\* of rows written to the raw files of all extracted tables.
C24_TotalRowsCountsRawRows ==
    pc = "done" => totalRows = RawLines(Extracted)

\* What a parsed file says, whatever the order of its columns and lines: its
\* data lines, each as the record that maps a column of the header to the
\* cell below it.
ParsedRecords(t) ==
    LET lines == parsedFile[t].lines
    IN  IF lines = << >> THEN {}
        ELSE {[c \in Range(lines[1]) |->
                 lines[n][CHOOSE i \in 1 .. Len(lines[1]) : lines[1][i] = c]] :
              n \in 2 .. Len(lines)}
\* A database of two tables in which table 2 references the root through
\* two foreign keys; the root has the rows (1, 2) and (2, 1), table 2 has the
\* rows (1, 1) and (2, 2), and the root id is 1.
TwoKeysCatalog ==
    {[tableName |-> 2, column_name |-> "id",
      foreign_table_name |-> root, foreign_column_name |-> "id"],
     [tableName |-> 2, column_name |-> "a",
      foreign_table_name |-> root, foreign_column_name |-> "a"]}
TwoKeysDatabase ==
    /\ catalog = TwoKeysCatalog
    /\ db[root] = [read |-> TRUE, rows |-> {[id |-> "1", a |-> "2"], [id |-> "2", a |-> "1"]}]
    /\ db[2] = [read |-> TRUE, rows |-> {[id |-> "1", a |-> "1"], [id |-> "2", a |-> "2"]}]
    /\ rootId = "1"

\* C25, for the database above: every run that ends normally has written the
\* same parsed file for table 2, whatever the order in which the catalog rows
\* came and the hash containers were walked; in one such run the file holds
\* the row (1, 1), so in every such run it does.
C25_RerunStable ==
    (pc = "done" /\ TwoKeysDatabase) => ParsedRecords(2) = {[id |-> "1", a |-> "1"]}

\* The pass over descendantSet has been set up.
DescendantPassSet == PhaseOf(pc) \in 5 .. 8

\* C26: for every acyclic graph the root is the first table of the descendant
\* pass; every other direct descendant comes after it, once, and after every
\* direct descendant it references, so the tables that reference the root
\* come before the tables that reference them; and the pass processes the
\* tables in this order.
C26_RootFirstThenReferrers ==
    (DescendantPassSet /\ Acyclic) =>
        /\ descendantSet # << >>
        /\ descendantSet[1] = root
        /\ Range(descendantSet) = directDescendants
        /\ Len(descendantSet) = Cardinality(directDescendants)
        /\ \A d \in directDescendants : \A p \in deps[d] \cap directDescendants :
              Position(descendantSet, p) < Position(descendantSet, d)
        /\ \A d \in directDescendants \ {root} :
              \E p \in deps[d] \cap directDescendants :
                  Position(descendantSet, p) < Position(descendantSet, d)
        /\ pc = "descendants" =>
              \A i \in 1 .. Len(descendantSet) :
                  rawFile[descendantSet[i]].exists => i <= pos
\* The descendant pass has ended for an acyclic graph in which two tables
\* reference the root and a third table references one of them.
C26_Witness ==
    /\ pc = "outsiders"
    /\ Acyclic
    /\ Cardinality({d \in directDescendants : root \in deps[d]}) >= 2
    /\ \E d \in directDescendants :
          /\ root \notin deps[d]
          /\ \E p \in deps[d] : root \in deps[p]

\* C27: when the second sort has ended for an acyclic graph, its order
\* othersL holds every outside table exactly once, each outside table after
\* all outside tables that reference it.
C27_OutsiderOrderComplete ==
    (pc = "rootQuery" /\ Acyclic) =>
        /\ Range(othersL) = outsideTables
        /\ Len(othersL) = Cardinality(outsideTables)
        /\ \A o \in outsideTables : \A r \in inv[o] \cap outsideTables :
              /\ r \in Range(othersL)
              /\ o \in Range(othersL)
              /\ Position(othersL, r) < Position(othersL, o)

\* C28: the assertion fkeyColIndex != INT_MIN of getValuesForTable never
\* fails: the column looked up in a parsed file that is not empty is in the
\* header of the file, for every graph and every choice of column names.
C28_LookedUpColumnInHeader ==
    abortedAt # ColumnFoundAssertion

\* No table is in the list twice.
NoRepeats(tableList) ==
    \A i \in 1 .. Len(tableList) : \A j \in 1 .. Len(tableList) :
        tableList[i] = tableList[j] => i = j
\* The direct descendants and the outside tables have no table in common.
DisjointPartition == directDescendants \cap outsideTables = {}

C30_SortsTerminate ==
    /\ [](NoRepeats(L \o S))
    /\ [](pc = "kahn" => othersL = << >>)
    /\ [][pc = "kahn" /\ pc' = "kahn" => (L' = Append(L, Head(S)) /\ O' = O)]_vars
    /\ [][pc = "kahnOthers" /\ pc' = "kahnOthers" =>
            (O' = Tail(O) /\ othersL' = Append(othersL, Head(O)) /\ L' = L)]_vars
    /\ <>(pc \notin {"bfs", "children", "parents", "kahn", "kahnOthers"})
\* Both loops have ended for a graph with a cycle, the second loop having
\* placed an outside table and pushed on S.
C30_Witness ==
    /\ pc = "rootQuery"
    /\ ~Acyclic
    /\ Cardinality(seen) >= 2
    /\ othersL # << >>
    /\ S # << >>

\* C31: the index recorded on the first row for each needed column is the
\* position of the column in the result row, whatever the width of the
\* table.
C31_RecordedIndexIsPosition ==
    \A col \in DOMAIN colIndexes : colIndexes[col] = FieldIndex(col)


(***************************************************************************)
(* Properties of the data search of main.cpp.                              *)
(***************************************************************************)
\* The data-search order starts with the root and holds every other table
\* of L once.
RootThenRestOfL ==
    /\ dataSearchOrder[1] = root
    /\ NoRepeats(dataSearchOrder)
    /\ Range(dataSearchOrder) = Range(L) \cup {root}

\* The tables runTable was invoked on before the k-th invocation.
RanBefore(k) == {ran[j] : j \in 1 .. k - 1}

\* C32: in main.cpp the data-search order runs the root first and then every
\* other table of L exactly once, and runTable is invoked on a table only
\* after it has been invoked on every table of that table's depCopy set.
\* The root goes first by construction, so the second half is stated for
\* the tables that follow it, and a table's reference to itself is left out.
C32_RunsAfterDepCopyTables ==
    pc \in {"runTables", "done"} =>
        /\ RootThenRestOfL
        /\ \A k \in 2 .. Len(ran) :
              (deps[ran[k]] \ {ran[k]}) \subseteq RanBefore(k)

\* The first half of C32 alone.
SearchOrderCoversL == pc \in {"runTables", "done"} => RootThenRestOfL
====
